---- MODULE Spec2Model ----
(***************************************************************************)
(* Ledger and audit trail of the finance application (src/finance).        *)
(*                                                                         *)
(* The state is the content of the tables journal entry, journal line,     *)
(* accounting period and audit event, plus the in-memory objects of the    *)
(* handlers that write in several database statements (the admin bulk      *)
(* actions, AuditEvent.save).  The database runs in autocommit mode (the   *)
(* settings set no ATOMIC_REQUESTS), so every statement of such a handler  *)
(* is a step of its own.                                                   *)
(***************************************************************************)
EXTENDS Integers, Sequences, FiniteSets, TLC

\* ------------------------------------------------------------- bounds
MaxEntries == 2      \* journal entries ever created
MaxLines == 2        \* journal lines ever created
MaxEvents == 2       \* audit events ever created
MaxClosings == 2     \* fiscal closings ever created
MaxInFlight == 2     \* fiscal closing creations in progress at once
MaxRates == 2        \* exchange rates ever created
LicenseSeats == 1    \* License.seats of the module's active license

\* ------------------------------------------------------------- value sets
Periods == {"2026-01"}
Journals == {"VT"}
Tenants == {"t1", "t2"}

\* PeriodStatus, MoveStatus (TextChoices)
PeriodStatus == {"OPEN", "LOCKED", "CLOSED"}
MoveStatus == {"DRAFT", "POSTED", "CANCELLED"}

\* ClosingStatus (TextChoices)
ClosingStatus == {"DRAFT", "GENERATED", "POSTED"}

\* Two fiscal years; the period belongs to the second one
\* (AccountingPeriod.fiscal_year).
FiscalYears == {"FY2025", "FY2026"}
fiscal_year == [p \in Periods |-> "FY2026"]

\* The chart of accounts (Account rows) lines are booked on.
Accounts == {"411", "601"}

\* The users (user_sub) who ask for a seat of the module.
Users == {"u1", "u2"}

\* No seat request in progress; no answer yet.
Idle == [kind |-> "none", used |-> 0]
NoResponse == [user |-> "", status |-> 0, user_entitled |-> FALSE,
               seats_used |-> 0]

EntryIds == 1..MaxEntries
LineIds == 1..MaxLines

\* reference is free text (CharField, blank=True); it is modelled by the
\* sequence number it ends with, 0 standing for the blank reference.
References == {0, 1}

\* The writable fields of a JournalEntry (form and serializer: "__all__").
JournalEntry == [journal : Journals, period : Periods, reference : References,
                 status : MoveStatus]

\* A stored JournalEntry: the writable fields and tenant, which the views set
\* at creation and which is read-only afterwards.
JournalEntryRow == [journal : Journals, period : Periods,
                    reference : References, status : MoveStatus,
                    tenant : Tenants]

\* The row a header saved for the tenant t makes.
EntryRow(hdr, t) ==
    [journal |-> hdr.journal, period |-> hdr.period,
     reference |-> hdr.reference, status |-> hdr.status, tenant |-> t]

\* The amounts a request may send in a line: the three shapes the table
\* accepts (empty, debit only, credit only), a negative amount, and both
\* amounts positive.
LineAmounts ==
    {[debit |-> 0, credit |-> 0], [debit |-> 1, credit |-> 0],
     [debit |-> 0, credit |-> 1], [debit |-> 0 - 1, credit |-> 0],
     [debit |-> 1, credit |-> 1]}

\* What a request may send as a line: an account among A, and amounts.
LineIn(A) ==
    {[account |-> a, debit |-> m.debit, credit |-> m.credit] :
        a \in A, m \in LineAmounts}

\* The row a line makes in the entry e, saved for the tenant t.
LineRow(t, e, ln) ==
    [tenant |-> t, entry |-> e, account |-> ln.account, debit |-> ln.debit,
     credit |-> ln.credit]

\* The tenant and the account the ledger specifications follow.
LedgerTenants == {"t1"}
LedgerAccounts == {"411"}

\* request.tenant is None and no header, query parameter or subdomain names
\* a tenant.
NoTenant == "none"

\* No bulk action in progress.
NoJob == [kind |-> "none", rows |-> <<>>]

VARIABLES
    periodStatus,   \* AccountingPeriod.status of each period
    entries,        \* table JournalEntry: id -> row
    nextEntry,      \* ids are fresh (uuid4): the next id never used
    lines,          \* table JournalLine: id -> [entry, debit, credit]
    nextLine,
    adminJob,       \* the admin bulk action in progress: its kind and the
                    \* rows its queryset fetched and has not saved yet
    audit,          \* table AuditEvent in creation order
    nextEvent,
    pending,        \* AuditEvent.save between its two writes: id -> object
    written,        \* history: id -> the row as the save that created it
                    \* left it
    yearClosed,     \* FiscalYear.is_closed of each fiscal year
    closings,       \* table FiscalClosing: id -> [fiscal_year, status]
    nextClosing,
    closingReq,     \* FiscalClosing creations that passed validation and
                    \* have not reached their INSERT yet
    closingResult,  \* the answer to the last FiscalClosing creation
    accounts,       \* table Account: the accounts that exist
    rates,          \* table ExchangeRate: id -> [date, rate, is_locked]
    nextRate,
    seatRows,       \* table SeatAssignment of one (tenant, module):
                    \* user_sub -> active
    seatReq,        \* the seat request each user has in progress, between
                    \* its reads and its write
    claimResp       \* the last answer of LicenseClaimSeatView.post

ledgerVars == <<periodStatus, entries, nextEntry, lines, nextLine, adminJob>>
auditVars == <<audit, nextEvent, pending, written>>
closingVars == <<yearClosed, closings, nextClosing, closingReq, closingResult>>
fxVars == <<rates, nextRate>>
seatVars == <<seatRows, seatReq, claimResp>>
vars == <<periodStatus, entries, nextEntry, lines, nextLine, adminJob,
          audit, nextEvent, pending, written, yearClosed, closings,
          nextClosing, closingReq, closingResult, accounts, rates, nextRate,
          seatRows, seatReq, claimResp>>

\* ------------------------------------------------------------- JournalEntry
\* entry.lines (related_name="lines")
LinesOf(e) == {l \in DOMAIN lines : lines[l].entry = e}

RECURSIVE SumDebit(_)
SumDebit(S) ==
    IF S = {} THEN 0
    ELSE LET l == CHOOSE x \in S : TRUE IN lines[l].debit + SumDebit(S \ {l})

RECURSIVE SumCredit(_)
SumCredit(S) ==
    IF S = {} THEN 0
    ELSE LET l == CHOOSE x \in S : TRUE IN lines[l].credit + SumCredit(S \ {l})

\* lines.aggregate(s=Sum("debit"))["s"] or Decimal("0")
total_debit(e) == SumDebit(LinesOf(e))

total_credit(e) == SumCredit(LinesOf(e))

is_balanced(e) == total_debit(e) = total_credit(e)

\* ------------------------------------------------------------- JournalLine
\* validators=[MinValueValidator(0)] on debit and on credit
MinValueValidator(ln) == ln.debit >= 0 /\ ln.credit >= 0

\* The table without its check constraint.
NoCheckConstraint(ln) == TRUE

\* CheckConstraint line_debit_or_credit_only
line_debit_or_credit_only(ln) ==
    \/ (ln.debit > 0 /\ ln.credit = 0)
    \/ (ln.credit > 0 /\ ln.debit = 0)
    \/ (ln.credit = 0 /\ ln.debit = 0)

\* ON DELETE CASCADE of JournalLine.entry
CascadeLines(e) == [l \in DOMAIN lines \ LinesOf(e) |-> lines[l]]

TypeOK ==
    /\ periodStatus \in [Periods -> PeriodStatus]
    /\ nextEntry \in 1..(MaxEntries + 1)
    /\ DOMAIN entries \subseteq 1..(nextEntry - 1)
    /\ \A e \in DOMAIN entries : entries[e] \in JournalEntryRow
    /\ nextLine \in 1..(MaxLines + 1)
    /\ DOMAIN lines \subseteq 1..(nextLine - 1)

Init ==
    /\ periodStatus = [p \in Periods |-> "OPEN"]
    /\ entries = <<>>
    /\ nextEntry = 1
    /\ lines = <<>>
    /\ nextLine = 1
    /\ adminJob = NoJob
    /\ audit = <<>>
    /\ nextEvent = 1
    /\ pending = <<>>
    /\ written = <<>>
    /\ yearClosed = [fy \in FiscalYears |-> FALSE]
    /\ closings = <<>>
    /\ nextClosing = 1
    /\ closingReq = <<>>
    /\ closingResult = "none"
    /\ accounts = Accounts
    /\ rates = <<>>
    /\ nextRate = 1
    /\ seatRows = <<>>
    /\ seatReq = [u \in Users |-> Idle]
    /\ claimResp = NoResponse

\* ------------------------------------------------------------- form views
\* ModelChoiceField and PrimaryKeyRelatedField over Account.objects.all(),
\* and the foreign key of the table: the account of a line must exist.
AccountExists(ln) == ln.account \in accounts

\* The lines a formset posts: at most as many as ids are left.
FormLines(A) ==
    UNION {[1..n -> LineIn(A)] : n \in 0..(MaxLines + 1 - nextLine)}

\* form_valid forces the tenant of the request on the new lines.
NewLines(t, e, lns) ==
    [l \in nextLine..(nextLine + Len(lns) - 1) |->
        LineRow(t, e, lns[l + 1 - nextLine])]

\* MasterWithLinesMixin.form_valid as JournalEntryCreate runs it, for a
\* request of the tenant t (get_current_tenant raises when there is none).
\* The header is saved first.  An invalid formset returns form_invalid(form)
\* without raising, so transaction.atomic commits the header.  A line that
\* passes the field validators and breaks the check constraint is refused
\* either by the formset (validate_constraints, when the framework runs it:
\* is_valid is false) or by the database (IntegrityError in line.save(): the
\* transaction rolls back).
JournalEntryCreate(t, hdr, lns) ==
    /\ t \in Tenants
    /\ nextEntry <= MaxEntries
    /\ LET e == nextEntry
           fieldsOk == \A i \in DOMAIN lns :
                           MinValueValidator(lns[i]) /\ AccountExists(lns[i])
           checkOk == \A i \in DOMAIN lns : line_debit_or_credit_only(lns[i])
           headerOnly == /\ entries' = entries @@ (e :> EntryRow(hdr, t))
                         /\ nextEntry' = e + 1
                         /\ UNCHANGED <<lines, nextLine>>
           rolledBack == UNCHANGED <<entries, nextEntry, lines, nextLine>>
       IN  IF ~fieldsOk THEN headerOnly
           ELSE IF ~checkOk THEN headerOnly \/ rolledBack
           ELSE /\ entries' = entries @@ (e :> EntryRow(hdr, t))
                /\ nextEntry' = e + 1
                /\ lines' = lines @@ NewLines(t, e, lns)
                /\ nextLine' = nextLine + Len(lns)
    /\ UNCHANGED <<periodStatus, adminJob, audit, nextEvent, pending, written>>
    /\ UNCHANGED closingVars
    /\ UNCHANGED <<accounts, fxVars, seatVars>>

\* What the formset of an update holds: nothing changed, one line of the
\* entry edited, one deleted (can_delete=True), or one added (extra=1).
FormsetOps(e, A) ==
    {[op |-> "keep"]}
    \cup {[op |-> "edit", line |-> l, to |-> ln] :
            l \in LinesOf(e), ln \in LineIn(A)}
    \cup {[op |-> "delete", line |-> l] : l \in LinesOf(e)}
    \cup {[op |-> "add", to |-> ln] :
            ln \in IF nextLine <= MaxLines THEN LineIn(A) ELSE {}}

\* An edited line keeps its tenant (tenant_id is set already); an added line
\* gets the tenant of the request.
ApplyFormset(t, e, f) ==
    CASE f.op = "keep" -> lines
      [] f.op = "edit" ->
            [lines EXCEPT ![f.line] = LineRow(lines[f.line].tenant, e, f.to)]
      [] f.op = "delete" -> [l \in DOMAIN lines \ {f.line} |-> lines[l]]
      [] f.op = "add" -> lines @@ (nextLine :> LineRow(t, e, f.to))

\* MasterWithLinesMixin.form_valid as JournalEntryUpdate runs it: the object
\* comes from the tenant's queryset whatever its status, and keeps its
\* tenant.
JournalEntryUpdate(t, e, hdr, f) ==
    /\ e \in DOMAIN entries
    /\ entries[e].tenant = t
    /\ LET hasLine == f.op \in {"edit", "add"}
           fieldsOk == hasLine => MinValueValidator(f.to) /\ AccountExists(f.to)
           checkOk == hasLine => line_debit_or_credit_only(f.to)
           headerOnly == /\ entries' = [entries EXCEPT ![e] = EntryRow(hdr, t)]
                         /\ UNCHANGED <<lines, nextLine>>
           rolledBack == UNCHANGED <<entries, lines, nextLine>>
       IN  IF ~fieldsOk THEN headerOnly
           ELSE IF ~checkOk THEN headerOnly \/ rolledBack
           ELSE /\ entries' = [entries EXCEPT ![e] = EntryRow(hdr, t)]
                /\ lines' = ApplyFormset(t, e, f)
                /\ nextLine' = IF f.op = "add" THEN nextLine + 1 ELSE nextLine
    /\ UNCHANGED <<periodStatus, nextEntry, adminJob, audit, nextEvent,
                   pending, written>>
    /\ UNCHANGED closingVars
    /\ UNCHANGED <<accounts, fxVars, seatVars>>

\* JournalEntryDelete = crud_views(...)[4]: BaseTenantDelete, a DeleteView over
\* the tenant's queryset.
JournalEntryDelete(t, e) ==
    /\ e \in DOMAIN entries
    /\ entries[e].tenant = t
    /\ entries' = [x \in DOMAIN entries \ {e} |-> entries[x]]
    /\ lines' = CascadeLines(e)
    /\ UNCHANGED <<periodStatus, nextEntry, nextLine, adminJob, audit,
                   nextEvent, pending, written>>
    /\ UNCHANGED closingVars
    /\ UNCHANGED <<accounts, fxVars, seatVars>>

\* ------------------------------------------------------------- finance API
\* _get_tenant_id_from_request gives a tenant id, or None:
\* TenantScopedViewSet.get_queryset is then empty and perform_create raises
\* ValidationError.
Resolved(t) == t \in Tenants

\* JournalEntryViewSet.create: TenantScopedViewSet.perform_create saves what
\* the serializer validated with the tenant of the request; lines is
\* read_only, every other field is taken.
ApiEntryCreate(t, hdr) ==
    /\ nextEntry <= MaxEntries
    /\ IF Resolved(t)
       THEN /\ entries' = entries @@ (nextEntry :> EntryRow(hdr, t))
            /\ nextEntry' = nextEntry + 1
       ELSE UNCHANGED <<entries, nextEntry>>
    /\ UNCHANGED <<periodStatus, lines, nextLine, adminJob, audit, nextEvent,
                   pending, written>>
    /\ UNCHANGED closingVars
    /\ UNCHANGED <<accounts, fxVars, seatVars>>

\* JournalEntryViewSet.update / partial_update (ModelViewSet): the object
\* comes from get_queryset, tenant is read-only.
ApiEntryUpdate(t, e, hdr) ==
    /\ e \in DOMAIN entries
    /\ entries[e].tenant = t
    /\ entries' = [entries EXCEPT ![e] = EntryRow(hdr, t)]
    /\ UNCHANGED <<periodStatus, nextEntry, lines, nextLine, adminJob, audit,
                   nextEvent, pending, written>>
    /\ UNCHANGED closingVars
    /\ UNCHANGED <<accounts, fxVars, seatVars>>

\* JournalEntryViewSet.destroy (ModelViewSet)
ApiEntryDestroy(t, e) ==
    /\ e \in DOMAIN entries
    /\ entries[e].tenant = t
    /\ entries' = [x \in DOMAIN entries \ {e} |-> entries[x]]
    /\ lines' = CascadeLines(e)
    /\ UNCHANGED <<periodStatus, nextEntry, nextLine, adminJob, audit,
                   nextEvent, pending, written>>
    /\ UNCHANGED closingVars
    /\ UNCHANGED <<accounts, fxVars, seatVars>>

\* What the serializer and the table accept of a line: the field validators
\* and an existing account (400 otherwise) and the check constraint
\* (IntegrityError otherwise).
LineAccepted(ln) ==
    MinValueValidator(ln) /\ AccountExists(ln) /\ line_debit_or_credit_only(ln)

\* JournalLineViewSet.create.  entry is a PrimaryKeyRelatedField of the
\* ModelSerializer, over JournalEntry.objects.all(): any entry, of any
\* tenant, is a valid value.
ApiLineCreate(t, e, ln) ==
    /\ e \in DOMAIN entries
    /\ nextLine <= MaxLines
    /\ IF Resolved(t) /\ LineAccepted(ln)
       THEN /\ lines' = lines @@ (nextLine :> LineRow(t, e, ln))
            /\ nextLine' = nextLine + 1
       ELSE UNCHANGED <<lines, nextLine>>
    /\ UNCHANGED <<periodStatus, entries, nextEntry, adminJob, audit,
                   nextEvent, pending, written>>
    /\ UNCHANGED closingVars
    /\ UNCHANGED <<accounts, fxVars, seatVars>>

\* JournalLineViewSet.update / partial_update: the line comes from
\* get_queryset; entry is a writable field too, over every tenant's entries.
ApiLineUpdate(t, l, e, ln) ==
    /\ l \in DOMAIN lines
    /\ lines[l].tenant = t
    /\ e \in DOMAIN entries
    /\ IF LineAccepted(ln)
       THEN lines' = [lines EXCEPT ![l] = LineRow(t, e, ln)]
       ELSE UNCHANGED lines
    /\ UNCHANGED <<periodStatus, entries, nextEntry, nextLine, adminJob,
                   audit, nextEvent, pending, written>>
    /\ UNCHANGED closingVars
    /\ UNCHANGED <<accounts, fxVars, seatVars>>

\* JournalLineViewSet.destroy
ApiLineDestroy(t, l) ==
    /\ l \in DOMAIN lines
    /\ lines[l].tenant = t
    /\ lines' = [x \in DOMAIN lines \ {l} |-> lines[x]]
    /\ UNCHANGED <<periodStatus, entries, nextEntry, nextLine, adminJob,
                   audit, nextEvent, pending, written>>
    /\ UNCHANGED closingVars
    /\ UNCHANGED <<accounts, fxVars, seatVars>>

\* AccountingPeriodViewSet.update / partial_update; the admin's
\* list_editable = ('status',) and the period form write status the same way.
ApiPeriodUpdate(p, st) ==
    /\ periodStatus' = [periodStatus EXCEPT ![p] = st]
    /\ UNCHANGED <<entries, nextEntry, lines, nextLine, adminJob, audit,
                   nextEvent, pending, written>>
    /\ UNCHANGED closingVars
    /\ UNCHANGED <<accounts, fxVars, seatVars>>

\* ------------------------------------------------------------- admin
\* AccountingPeriodAdmin.close_period: queryset.update(status='CLOSED')
close_period(Q) ==
    /\ periodStatus' = [p \in Periods |-> IF p \in Q THEN "CLOSED"
                                          ELSE periodStatus[p]]
    /\ UNCHANGED <<entries, nextEntry, lines, nextLine, adminJob, audit,
                   nextEvent, pending, written>>
    /\ UNCHANGED closingVars
    /\ UNCHANGED <<accounts, fxVars, seatVars>>

\* AccountingPeriodAdmin.lock_period: queryset.update(status='LOCKED')
lock_period(Q) ==
    /\ periodStatus' = [p \in Periods |-> IF p \in Q THEN "LOCKED"
                                          ELSE periodStatus[p]]
    /\ UNCHANGED <<entries, nextEntry, lines, nextLine, adminJob, audit,
                   nextEvent, pending, written>>
    /\ UNCHANGED closingVars
    /\ UNCHANGED <<accounts, fxVars, seatVars>>

\* The status each bulk action of JournalEntryAdmin writes.
ActionStatus(kind) == IF kind = "post_entries" THEN "POSTED" ELSE "CANCELLED"

\* post_entries / cancel_entries, the loop header: iterating
\* queryset.filter(status='DRAFT') fetches the selected DRAFT rows at once.
AdminActionFetch(kind, Q) ==
    /\ adminJob = NoJob
    /\ LET drafts == {e \in Q \cap DOMAIN entries : entries[e].status = "DRAFT"}
       IN  adminJob' = IF drafts = {} THEN NoJob
                       ELSE [kind |-> kind,
                             rows |-> [e \in drafts |-> entries[e]]]
    /\ UNCHANGED <<periodStatus, entries, nextEntry, lines, nextLine, audit,
                   nextEvent, pending, written>>
    /\ UNCHANGED closingVars
    /\ UNCHANGED <<accounts, fxVars, seatVars>>

\* The loop body: entry.status = ...; entry.save().  save() writes every
\* field of the fetched object (an UPDATE by primary key, then an INSERT when
\* no row was updated).
SaveFetched(kind, row) == [row EXCEPT !.status = ActionStatus(kind)]

AdminActionSave(e) ==
    /\ adminJob # NoJob
    /\ e \in DOMAIN adminJob.rows
    /\ LET saved == SaveFetched(adminJob.kind, adminJob.rows[e])
           rest == [x \in DOMAIN adminJob.rows \ {e} |-> adminJob.rows[x]]
       IN  /\ entries' = IF e \in DOMAIN entries
                         THEN [entries EXCEPT ![e] = saved]
                         ELSE entries @@ (e :> saved)
           /\ adminJob' = IF DOMAIN rest = {} THEN NoJob
                          ELSE [kind |-> adminJob.kind, rows |-> rest]
    /\ UNCHANGED <<periodStatus, nextEntry, lines, nextLine, audit, nextEvent,
                   pending, written>>
    /\ UNCHANGED closingVars
    /\ UNCHANGED <<accounts, fxVars, seatVars>>

\* The loop of a bulk action over queryset in place of
\* queryset.filter(status='DRAFT'): every selected row is saved.
BulkSavedUnfiltered(kind, Q) ==
    [e \in DOMAIN entries |->
        IF e \in Q THEN SaveFetched(kind, entries[e]) ELSE entries[e]]

\* post_entries and cancel_entries with no other request served while the
\* loop runs: every selected DRAFT row is fetched and saved.
BulkSaved(kind, Q) ==
    [e \in DOMAIN entries |->
        IF e \in Q /\ entries[e].status = "DRAFT"
        THEN SaveFetched(kind, entries[e]) ELSE entries[e]]

post_entries(Q) ==
    /\ adminJob = NoJob
    /\ entries' = BulkSaved("post_entries", Q)
    /\ UNCHANGED <<periodStatus, nextEntry, lines, nextLine, adminJob, audit,
                   nextEvent, pending, written>>
    /\ UNCHANGED closingVars
    /\ UNCHANGED <<accounts, fxVars, seatVars>>

cancel_entries(Q) ==
    /\ adminJob = NoJob
    /\ entries' = BulkSaved("cancel_entries", Q)
    /\ UNCHANGED <<periodStatus, nextEntry, lines, nextLine, adminJob, audit,
                   nextEvent, pending, written>>
    /\ UNCHANGED closingVars
    /\ UNCHANGED <<accounts, fxVars, seatVars>>

\* The requests to the form views of the tenants T, booking on the accounts A.
FormRequest(T, A) ==
    \/ \E t \in T, hdr \in JournalEntry, lns \in FormLines(A) :
            JournalEntryCreate(t, hdr, lns)
    \/ \E t \in T, e \in EntryIds, hdr \in JournalEntry :
            \E f \in FormsetOps(e, A) : JournalEntryUpdate(t, e, hdr, f)
    \/ \E t \in T, e \in EntryIds : JournalEntryDelete(t, e)

\* The requests to the finance API of the tenants T, booking on the accounts A.
ApiRequest(T, A) ==
    \/ \E t \in T, hdr \in JournalEntry : ApiEntryCreate(t, hdr)
    \/ \E t \in T, e \in EntryIds, hdr \in JournalEntry :
            ApiEntryUpdate(t, e, hdr)
    \/ \E t \in T, e \in EntryIds : ApiEntryDestroy(t, e)
    \/ \E t \in T, e \in EntryIds, ln \in LineIn(A) : ApiLineCreate(t, e, ln)
    \/ \E t \in T, l \in LineIds, e \in EntryIds, ln \in LineIn(A) :
            ApiLineUpdate(t, l, e, ln)
    \/ \E t \in T, l \in LineIds : ApiLineDestroy(t, l)

\* The requests that read and write with one statement or inside one
\* transaction.
Request ==
    \/ FormRequest(LedgerTenants, LedgerAccounts)
    \/ ApiRequest(LedgerTenants, LedgerAccounts)
    \/ \E p \in Periods, st \in PeriodStatus : ApiPeriodUpdate(p, st)
    \/ \E Q \in SUBSET Periods : close_period(Q)
    \/ \E Q \in SUBSET Periods : lock_period(Q)

\* Requests served one after the other.
Next ==
    \/ \E Q \in SUBSET EntryIds : post_entries(Q)
    \/ \E Q \in SUBSET EntryIds : cancel_entries(Q)
    \/ Request

Spec == Init /\ [][Next]_vars

\* The bulk actions interleaved, statement by statement, with the requests
\* of other users.
NextRace ==
    \/ Request
    \/ \E kind \in {"post_entries", "cancel_entries"}, Q \in SUBSET EntryIds :
            AdminActionFetch(kind, Q)
    \/ \E e \in EntryIds : AdminActionSave(e)

SpecRace == Init /\ [][NextRace]_vars

\* ------------------------------------------------------------- AuditEvent
\* JSONField values: the document the writer recorded (the default {}) and
\* some other document.
Json == {"{}", "{x}"}

\* prev_hash and event_hash are blank=True: the empty string.
EmptyHash == <<>>

\* compute_hash: sha256 over the JSON dump (sorted keys) of the payload, here
\* the payload itself, so that two payloads collide only when they are equal.
\* actor_id, model_label and object_id are the same in every event of the
\* model and left out.
compute_hash(ev) ==
    <<ev.tenant, ev.action, ev.before, ev.after, ev.meta, ev.created_at,
      ev.prev_hash>>

EventIds == 1..MaxEvents

\* What a client may send as prev_hash (AuditEventSerializer leaves it
\* writable): nothing, or the hash of an event it has read.
PrevHashIn == {EmptyHash} \cup {audit[e].event_hash : e \in DOMAIN audit}

\* AuditEvent.save, first write: super().save() inserts the row; created_at
\* is auto_now_add (a clock that never repeats), event_hash is still blank.
\* AuditEventViewSet.create reaches it through serializer.save().
AuditInsert(t, after, prev) ==
    /\ nextEvent <= MaxEvents
    /\ LET ev == [tenant |-> t, action |-> "POST", before |-> "{}",
                  after |-> after, meta |-> "{}", created_at |-> nextEvent,
                  prev_hash |-> prev, event_hash |-> EmptyHash]
       IN  /\ audit' = audit @@ (nextEvent :> ev)
           /\ pending' = pending @@ (nextEvent :> ev)
    /\ nextEvent' = nextEvent + 1
    /\ UNCHANGED <<periodStatus, entries, nextEntry, lines, nextLine,
                   adminJob, written>>
    /\ UNCHANGED closingVars
    /\ UNCHANGED <<accounts, fxVars, seatVars>>

\* AuditEvent.save, second write: event_hash = compute_hash() of the object
\* in memory, then save(update_fields=["event_hash"]), which writes that
\* column alone and raises when the row is gone.
AuditSaveHash(e) ==
    /\ e \in DOMAIN pending
    /\ LET h == compute_hash(pending[e])
       IN  IF e \in DOMAIN audit
           THEN /\ audit' = [audit EXCEPT ![e].event_hash = h]
                /\ written' = written @@ (e :> audit'[e])
           ELSE UNCHANGED <<audit, written>>
    /\ pending' = [x \in DOMAIN pending \ {e} |-> pending[x]]
    /\ UNCHANGED <<periodStatus, entries, nextEntry, lines, nextLine,
                   adminJob, nextEvent>>
    /\ UNCHANGED closingVars
    /\ UNCHANGED <<accounts, fxVars, seatVars>>

\* The row after a PATCH of one JSON field.
Patched(ev, field, v) ==
    CASE field = "before" -> [ev EXCEPT !.before = v]
      [] field = "after" -> [ev EXCEPT !.after = v]
      [] field = "meta" -> [ev EXCEPT !.meta = v]

\* AuditEventViewSet.partial_update (ModelViewSet; read_only_fields are id,
\* tenant, created_at, event_hash): the serializer sets the field and calls
\* save(), which recomputes event_hash only when it is blank.
ApiAuditUpdate(e, field, v) ==
    /\ e \in DOMAIN audit
    /\ LET ev == Patched(audit[e], field, v)
       IN  audit' = [audit EXCEPT ![e] =
                        IF ev.event_hash = EmptyHash
                        THEN [ev EXCEPT !.event_hash = compute_hash(ev)]
                        ELSE ev]
    /\ UNCHANGED <<periodStatus, entries, nextEntry, lines, nextLine,
                   adminJob, nextEvent, pending, written>>
    /\ UNCHANGED closingVars
    /\ UNCHANGED <<accounts, fxVars, seatVars>>

\* AuditEventViewSet.destroy (ModelViewSet)
ApiAuditDestroy(e) ==
    /\ e \in DOMAIN audit
    /\ audit' = [x \in DOMAIN audit \ {e} |-> audit[x]]
    /\ UNCHANGED <<periodStatus, entries, nextEntry, lines, nextLine,
                   adminJob, nextEvent, pending, written>>
    /\ UNCHANGED closingVars
    /\ UNCHANGED <<accounts, fxVars, seatVars>>

\* AuditEventViews = crud_views(...)[4]: the DeleteView over the tenant's
\* queryset.  (The create and update views of that tuple get
\* form_class=TenantModelForm, a ModelForm with no model, and fail before
\* they write.)
AuditEventDelete(e) ==
    /\ e \in DOMAIN audit
    /\ audit' = [x \in DOMAIN audit \ {e} |-> audit[x]]
    /\ UNCHANGED <<periodStatus, entries, nextEntry, lines, nextLine,
                   adminJob, nextEvent, pending, written>>
    /\ UNCHANGED closingVars
    /\ UNCHANGED <<accounts, fxVars, seatVars>>

NextAudit ==
    \/ \E t \in Tenants, prev \in PrevHashIn : AuditInsert(t, "{}", prev)
    \/ \E e \in EventIds : AuditSaveHash(e)
    \/ \E e \in EventIds, field \in {"before", "after", "meta"}, v \in Json :
            ApiAuditUpdate(e, field, v)
    \/ \E e \in EventIds : ApiAuditDestroy(e)
    \/ \E e \in EventIds : AuditEventDelete(e)

SpecAudit == Init /\ [][NextAudit]_vars

\* The tenant's events in creation order (index tenant, created_at).
RECURSIVE Ordered(_)
Ordered(S) ==
    IF S = {} THEN <<>>
    ELSE LET e == CHOOSE x \in S : \A y \in S : audit[x].created_at <= audit[y].created_at
         IN  <<e>> \o Ordered(S \ {e})

TenantChain(t) == Ordered({e \in DOMAIN audit : audit[e].tenant = t})

\* verifyChain(tenant): replays the events in creation order, recomputes each
\* hash from the recorded fields and compares it with the stored prev_hash of
\* the next event; the first event that diverges is reported, 0 stands for OK.
VerifyOK == 0

VerifyAuditChain(t) ==
    LET ch == TenantChain(t)
        bad == {i \in 1..(Len(ch) - 1) :
                    compute_hash(audit[ch[i]]) # audit[ch[i + 1]].prev_hash}
    IN  IF bad = {} THEN VerifyOK
        ELSE ch[CHOOSE i \in bad : \A j \in bad : i <= j]

\* ------------------------------------------------------------- closing
ClosingIds == 1..MaxClosings

\* What a request may send as a FiscalClosing (form and serializer:
\* "__all__"; the entry links, dates and notes play no part here).
FiscalClosing == [fiscal_year : FiscalYears, status : ClosingStatus]

\* fiscal_year.periods (related_name="periods")
PeriodsOf(fy) == {p \in Periods : fiscal_year[p] = fy}

\* The closings of a fiscal year other than the row self.
ClosingsOf(fy, self) ==
    {c \in DOMAIN closings \ {self} : closings[c].fiscal_year = fy}

\* The table without its unique index.
NotUnique(fy, self) == TRUE

\* OneToOneField: fiscal_year is unique.  The serializer and the form test
\* it before they save (UniqueValidator, validate_unique) and the table's
\* unique index tests it again on INSERT and UPDATE.  0 is no row's id.
OneToOneField(fy, self) == ClosingsOf(fy, self) = {}

\* FiscalYearViewSet.update / partial_update, and the update form of
\* FiscalYearViews: is_closed is a writable field.
ApiYearUpdate(fy, b) ==
    /\ yearClosed' = [yearClosed EXCEPT ![fy] = b]
    /\ UNCHANGED <<periodStatus, closings, nextClosing, closingReq,
                   closingResult>>
    /\ UNCHANGED <<entries, nextEntry, lines, nextLine, adminJob>>
    /\ UNCHANGED auditVars
    /\ UNCHANGED <<accounts, fxVars, seatVars>>

\* FiscalClosingViewSet.create, up to serializer.is_valid (the create form of
\* FiscalClosingViews up to form.is_valid): a request for a year that has a
\* closing is answered 400.
ClosingValidate(req) ==
    /\ Len(closingReq) < MaxInFlight
    /\ IF OneToOneField(req.fiscal_year, 0)
       THEN /\ closingReq' = Append(closingReq, req)
            /\ UNCHANGED closingResult
       ELSE /\ closingResult' = "400"
            /\ UNCHANGED closingReq
    /\ UNCHANGED <<periodStatus, yearClosed, closings, nextClosing>>
    /\ UNCHANGED <<entries, nextEntry, lines, nextLine, adminJob>>
    /\ UNCHANGED auditVars
    /\ UNCHANGED <<accounts, fxVars, seatVars>>

\* perform_create: serializer.save(tenant_id=...) runs the INSERT; the unique
\* index refuses a second row of the year with an IntegrityError.
ClosingInsert(i) ==
    /\ i \in DOMAIN closingReq
    /\ nextClosing <= MaxClosings
    /\ IF OneToOneField(closingReq[i].fiscal_year, 0)
       THEN /\ closings' = closings @@ (nextClosing :> closingReq[i])
            /\ nextClosing' = nextClosing + 1
            /\ closingResult' = "201"
       ELSE /\ closingResult' = "IntegrityError"
            /\ UNCHANGED <<closings, nextClosing>>
    /\ closingReq' = [j \in 1..(Len(closingReq) - 1) |->
                        IF j < i THEN closingReq[j] ELSE closingReq[j + 1]]
    /\ UNCHANGED <<periodStatus, yearClosed>>
    /\ UNCHANGED <<entries, nextEntry, lines, nextLine, adminJob>>
    /\ UNCHANGED auditVars
    /\ UNCHANGED <<accounts, fxVars, seatVars>>

\* FiscalClosingViewSet.update / partial_update: fiscal_year and status are
\* writable; the year must not be the year of another closing.
ApiClosingUpdate(c, to) ==
    /\ c \in DOMAIN closings
    /\ IF OneToOneField(to.fiscal_year, c)
       THEN closings' = [closings EXCEPT ![c] = to]
       ELSE UNCHANGED closings
    /\ UNCHANGED <<periodStatus, yearClosed, nextClosing, closingReq,
                   closingResult>>
    /\ UNCHANGED <<entries, nextEntry, lines, nextLine, adminJob>>
    /\ UNCHANGED auditVars
    /\ UNCHANGED <<accounts, fxVars, seatVars>>

\* FiscalClosingViewSet.destroy
ApiClosingDestroy(c) ==
    /\ c \in DOMAIN closings
    /\ closings' = [x \in DOMAIN closings \ {c} |-> closings[x]]
    /\ UNCHANGED <<periodStatus, yearClosed, nextClosing, closingReq,
                   closingResult>>
    /\ UNCHANGED <<entries, nextEntry, lines, nextLine, adminJob>>
    /\ UNCHANGED auditVars
    /\ UNCHANGED <<accounts, fxVars, seatVars>>

\* The requests on fiscal years, their periods and their closings.
NextClosing ==
    \/ \E p \in Periods, st \in PeriodStatus : ApiPeriodUpdate(p, st)
    \/ \E Q \in SUBSET Periods : close_period(Q)
    \/ \E Q \in SUBSET Periods : lock_period(Q)
    \/ \E fy \in FiscalYears, b \in BOOLEAN : ApiYearUpdate(fy, b)
    \/ \E req \in FiscalClosing : ClosingValidate(req)
    \/ \E i \in 1..MaxInFlight : ClosingInsert(i)
    \/ \E c \in ClosingIds, to \in FiscalClosing : ApiClosingUpdate(c, to)
    \/ \E c \in ClosingIds : ApiClosingDestroy(c)

SpecClosing == Init /\ [][NextClosing]_vars

\* ------------------------------------------------------------- ExchangeRate
RateIds == 1..MaxRates

\* What a request may send as an ExchangeRate of one currency pair: its
\* date, its rate (negative, zero or positive) and is_locked.
ExchangeRate == [date : {"d1", "d2"}, rate : {0 - 1, 0, 1, 2},
                 is_locked : BOOLEAN]

\* UniqueConstraint uniq_fx_rate_per_day, for the row self (0: a new row).
uniq_fx_rate_per_day(r, self) ==
    \A x \in DOMAIN rates \ {self} : rates[x].date # r.date

\* What the serializer, the form and the table accept of a rate:
\* validators=[MinValueValidator(0)] on rate, and the unique constraint.
RateAccepted(r, self) == r.rate >= 0 /\ uniq_fx_rate_per_day(r, self)

\* ExchangeRateViewSet.create, and the create form of ExchangeRateViews
ApiRateCreate(r) ==
    /\ nextRate <= MaxRates
    /\ IF RateAccepted(r, 0)
       THEN /\ rates' = rates @@ (nextRate :> r)
            /\ nextRate' = nextRate + 1
       ELSE UNCHANGED <<rates, nextRate>>
    /\ UNCHANGED <<periodStatus, entries, nextEntry, lines, nextLine, adminJob>>
    /\ UNCHANGED <<auditVars, closingVars, accounts, seatVars>>

\* ExchangeRateViewSet.update / partial_update, the update form, and the
\* admin's list_editable = ('rate', 'is_locked'): the row is taken from the
\* queryset whatever its is_locked.
ApiRateUpdate(x, r) ==
    /\ x \in DOMAIN rates
    /\ IF RateAccepted(r, x)
       THEN rates' = [rates EXCEPT ![x] = r]
       ELSE UNCHANGED rates
    /\ UNCHANGED nextRate
    /\ UNCHANGED <<periodStatus, entries, nextEntry, lines, nextLine, adminJob>>
    /\ UNCHANGED <<auditVars, closingVars, accounts, seatVars>>

\* ExchangeRateViewSet.destroy
ApiRateDestroy(x) ==
    /\ x \in DOMAIN rates
    /\ rates' = [y \in DOMAIN rates \ {x} |-> rates[y]]
    /\ UNCHANGED nextRate
    /\ UNCHANGED <<periodStatus, entries, nextEntry, lines, nextLine, adminJob>>
    /\ UNCHANGED <<auditVars, closingVars, accounts, seatVars>>

NextRates ==
    \/ \E r \in ExchangeRate : ApiRateCreate(r)
    \/ \E x \in RateIds, r \in ExchangeRate : ApiRateUpdate(x, r)
    \/ \E x \in RateIds : ApiRateDestroy(x)

SpecRates == Init /\ [][NextRates]_vars

\* ------------------------------------------------------------- seats
\* SeatAssignment.objects.filter(tenant, module, active=True).count()
seats_used == Cardinality({u \in DOMAIN seatRows : seatRows[u]})

\* SeatAssignment.objects.filter(..., user_sub=u, active=True).exists()
user_entitled(u) == u \in DOMAIN seatRows /\ seatRows[u]

\* jit_allowed of _license_status_payload and _local_status, the licence
\* being active and not expired.
jit_allowed == seats_used < LicenseSeats

\* SeatAssignment.objects.get_or_create(tenant, module, user_sub,
\* defaults={"active": True, ...}): the row of the user is returned as it is
\* when there is one, and created active when there is none.
get_or_create(u) ==
    IF u \in DOMAIN seatRows THEN seatRows ELSE seatRows @@ (u :> TRUE)

\* SeatAssignment.objects.create(...): unique_together (tenant, module,
\* user_sub) refuses a second row of the user with an IntegrityError.
create(u) ==
    IF u \in DOMAIN seatRows THEN seatRows ELSE seatRows @@ (u :> TRUE)

\* LicenseClaimSeatView.post up to its decision (lines 73-83): it reads the
\* licence, seats_used and user_entitled, answers 200 when the user has a
\* seat and 403 when no seat is left, and goes on to claim one otherwise.
ClaimSeatRead(u) ==
    /\ seatReq[u] = Idle
    /\ IF user_entitled(u)
       THEN /\ claimResp' = [user |-> u, status |-> 200, user_entitled |-> TRUE,
                             seats_used |-> seats_used]
            /\ UNCHANGED seatReq
       ELSE IF ~jit_allowed
       THEN /\ claimResp' = [user |-> u, status |-> 403, user_entitled |-> FALSE,
                             seats_used |-> seats_used]
            /\ UNCHANGED seatReq
       ELSE /\ seatReq' = [seatReq EXCEPT ![u] = [kind |-> "claim",
                                                  used |-> seats_used]]
            /\ UNCHANGED claimResp
    /\ UNCHANGED seatRows
    /\ UNCHANGED <<periodStatus, entries, nextEntry, lines, nextLine, adminJob>>
    /\ UNCHANGED <<auditVars, closingVars, accounts, fxVars>>

\* LicenseClaimSeatView.post, lines 85-91: get_or_create, then the payload
\* read before is answered with user_entitled = True and seats_used + 1.
ClaimSeatWrite(u) ==
    /\ seatReq[u].kind = "claim"
    /\ seatRows' = get_or_create(u)
    /\ claimResp' = [user |-> u, status |-> 200, user_entitled |-> TRUE,
                     seats_used |-> seatReq[u].used + 1]
    /\ seatReq' = [seatReq EXCEPT ![u] = Idle]
    /\ UNCHANGED <<periodStatus, entries, nextEntry, lines, nextLine, adminJob>>
    /\ UNCHANGED <<auditVars, closingVars, accounts, fxVars>>

\* ensure_seat_for_user up to its decision (lines 17-35): nothing to do when
\* the user has an active seat or no seat is left.
EnsureSeatRead(u) ==
    /\ seatReq[u] = Idle
    /\ seatReq' = IF ~user_entitled(u) /\ seats_used < LicenseSeats
                  THEN [seatReq EXCEPT ![u] = [kind |-> "ensure", used |-> 0]]
                  ELSE seatReq
    /\ UNCHANGED <<seatRows, claimResp>>
    /\ UNCHANGED <<periodStatus, entries, nextEntry, lines, nextLine, adminJob>>
    /\ UNCHANGED <<auditVars, closingVars, accounts, fxVars>>

\* ensure_seat_for_user, lines 38-46: SeatAssignment.objects.create
EnsureSeatWrite(u) ==
    /\ seatReq[u].kind = "ensure"
    /\ seatRows' = create(u)
    /\ seatReq' = [seatReq EXCEPT ![u] = Idle]
    /\ UNCHANGED claimResp
    /\ UNCHANGED <<periodStatus, entries, nextEntry, lines, nextLine, adminJob>>
    /\ UNCHANGED <<auditVars, closingVars, accounts, fxVars>>

\* HasRHAccess.has_permission, local branch, up to its decision:
\* _local_status, then True for an entitled user, False when no seat is left.
JitRead(u) ==
    /\ seatReq[u] = Idle
    /\ seatReq' = IF ~user_entitled(u) /\ jit_allowed
                  THEN [seatReq EXCEPT ![u] = [kind |-> "jit", used |-> 0]]
                  ELSE seatReq
    /\ UNCHANGED <<seatRows, claimResp>>
    /\ UNCHANGED <<periodStatus, entries, nextEntry, lines, nextLine, adminJob>>
    /\ UNCHANGED <<auditVars, closingVars, accounts, fxVars>>

\* HasRHAccess.has_permission, local branch: get_or_create, return True
JitWrite(u) ==
    /\ seatReq[u].kind = "jit"
    /\ seatRows' = get_or_create(u)
    /\ seatReq' = [seatReq EXCEPT ![u] = Idle]
    /\ UNCHANGED claimResp
    /\ UNCHANGED <<periodStatus, entries, nextEntry, lines, nextLine, adminJob>>
    /\ UNCHANGED <<auditVars, closingVars, accounts, fxVars>>

\* SeatAssignmentAdmin, list_editable = ("active",), and
\* SeatAssignment.deactivate
SeatAdminEdit(u, b) ==
    /\ u \in DOMAIN seatRows
    /\ seatRows' = [seatRows EXCEPT ![u] = b]
    /\ UNCHANGED <<seatReq, claimResp>>
    /\ UNCHANGED <<periodStatus, entries, nextEntry, lines, nextLine, adminJob>>
    /\ UNCHANGED <<auditVars, closingVars, accounts, fxVars>>

\* The seat requests of the users, interleaved read by write.
NextSeats ==
    \/ \E u \in Users : ClaimSeatRead(u)
    \/ \E u \in Users : ClaimSeatWrite(u)
    \/ \E u \in Users : EnsureSeatRead(u)
    \/ \E u \in Users : EnsureSeatWrite(u)
    \/ \E u \in Users : JitRead(u)
    \/ \E u \in Users : JitWrite(u)
    \/ \E u \in Users, b \in BOOLEAN : SeatAdminEdit(u, b)

SpecSeats == Init /\ [][NextSeats]_vars

\* ------------------------------------------------------------- accounts
\* An account id nothing refers to any more may be taken again.
AccountCreate(a) ==
    /\ a \in Accounts \ accounts
    /\ accounts' = accounts \cup {a}
    /\ UNCHANGED <<periodStatus, entries, nextEntry, lines, nextLine, adminJob>>
    /\ UNCHANGED <<auditVars, closingVars, fxVars, seatVars>>

\* JournalLine.account with nothing to stop the delete of a referenced row.
NoProtect(a) == TRUE

\* JournalLine.account, on_delete=models.PROTECT: the collector raises
\* ProtectedError when a line refers to the account.  (The other foreign keys
\* to Account are SET_NULL.)
PROTECT(a) == \A l \in DOMAIN lines : lines[l].account # a

\* AccountViewSet.destroy, the delete view of AccountViews and the admin's
\* delete: Account.delete().
AccountDestroy(a) ==
    /\ a \in accounts
    /\ accounts' = IF PROTECT(a) THEN accounts \ {a} ELSE accounts
    /\ UNCHANGED <<periodStatus, entries, nextEntry, lines, nextLine, adminJob>>
    /\ UNCHANGED <<auditVars, closingVars, fxVars, seatVars>>

\* The headers the account and tenant specifications book under.
DraftHeaders == {hdr \in JournalEntry : hdr.status = "DRAFT" /\ hdr.reference = 0}

\* Lines booked, moved and removed through the API while accounts are
\* created and deleted.
NextAccounts ==
    \/ \E a \in Accounts : AccountCreate(a)
    \/ \E a \in Accounts : AccountDestroy(a)
    \/ \E t \in LedgerTenants, hdr \in DraftHeaders : ApiEntryCreate(t, hdr)
    \/ \E t \in LedgerTenants, e \in EntryIds : ApiEntryDestroy(t, e)
    \/ \E t \in LedgerTenants, e \in EntryIds, ln \in LineIn(Accounts) :
            ApiLineCreate(t, e, ln)
    \/ \E t \in LedgerTenants, l \in LineIds, e \in EntryIds,
          ln \in LineIn(Accounts) : ApiLineUpdate(t, l, e, ln)
    \/ \E t \in LedgerTenants, l \in LineIds : ApiLineDestroy(t, l)

SpecAccounts == Init /\ [][NextAccounts]_vars

\* ------------------------------------------------------------- tenants
\* The finance API serving the requests of every tenant, and requests for
\* which no tenant is resolved.
NextTenant == ApiRequest(Tenants \cup {NoTenant}, LedgerAccounts)

SpecTenant == Init /\ [][NextTenant]_vars

\* ============================================================= claims

\* C1: every POSTED entry has the sum of its lines' debit equal to the sum
\* of its lines' credit; post_entries applied to a DRAFT entry whose sums
\* differ is rejected and the entry stays DRAFT.  As a property of every step:
\* after post_entries every POSTED entry that was DRAFT before is balanced.
C1_PostRejectsUnbalanced ==
    [][\A Q \in SUBSET EntryIds :
          post_entries(Q) =>
            \A e \in DOMAIN entries :
                (entries[e].status = "DRAFT" /\ entries'[e].status = "POSTED")
                    => is_balanced(e)']_vars

\* C2: no entry is created with a period whose status is LOCKED or CLOSED at
\* creation time: every row a step adds to the entries belongs to an OPEN
\* period.
C2_NoEntryInClosedPeriod ==
    [][\A e \in DOMAIN entries' \ DOMAIN entries :
          periodStatus[entries'[e].period] = "OPEN"]_vars

\* The header fields of an entry that a posting freezes (entry_date and label
\* are written by the same statements as reference).
Header(row) == <<row.journal, row.period, row.reference>>

\* C3: once an entry is POSTED no step changes its header fields, the set of
\* its lines or their amounts, and none removes it.
C3_PostedImmutable ==
    [][\A e \in DOMAIN entries :
          entries[e].status = "POSTED" =>
            /\ e \in DOMAIN entries'
            /\ Header(entries'[e]) = Header(entries[e])
            /\ LinesOf(e)' = LinesOf(e)
            /\ \A l \in LinesOf(e) : lines'[l] = lines[l]]_vars

\* A step that posts or cancels an entry, or that locks, unlocks or closes a
\* period.
LedgerMutation ==
    \/ periodStatus' # periodStatus
    \/ \E e \in DOMAIN entries \cap DOMAIN entries' :
          /\ entries'[e].status # entries[e].status
          /\ entries'[e].status \in {"POSTED", "CANCELLED"}

\* C4: every successful post, cancel, lock, unlock and close appends exactly
\* one AuditEvent in the same step: no ledger mutation is committed without it.
C4_MutationAudited ==
    [][LedgerMutation =>
          /\ nextEvent' = nextEvent + 1
          /\ DOMAIN audit' = DOMAIN audit \cup {nextEvent}]_vars

\* The POSTED entries of a journal and the sequence numbers of their
\* references.
PostedOf(j) ==
    {e \in DOMAIN entries : entries[e].journal = j /\ entries[e].status = "POSTED"}

PostedRefs(j) == {entries[e].reference : e \in PostedOf(j)}

\* The references of the POSTED entries of every journal are pairwise
\* distinct and their sequence numbers are 1..k for k posted entries.
GapFree ==
    \A j \in Journals :
        /\ PostedRefs(j) = 1..Cardinality(PostedOf(j))
        /\ \A a, b \in PostedOf(j) :
              entries[a].reference = entries[b].reference => a = b

\* C8: posting gives the POSTED entries of a journal pairwise distinct,
\* gap-free, strictly increasing references: post_entries keeps GapFree.
C8_PostAssignsDistinctReferences ==
    [][\A Q \in SUBSET EntryIds : (GapFree /\ post_entries(Q)) => GapFree']_vars

\* No save is in progress and every event ever written is stored as its save
\* left it.
Untouched == DOMAIN pending = {} /\ audit = written

\* C5: each event's prev_hash is the event_hash of the event of the same
\* tenant created just before it, and is empty for the tenant's first event.
ChainLinked(t) ==
    LET ch == TenantChain(t)
    IN  \A i \in 1..Len(ch) :
            audit[ch[i]].prev_hash =
                IF i = 1 THEN EmptyHash ELSE audit[ch[i - 1]].event_hash

C5_PrevHashLinksChain == Untouched => \A t \in Tenants : ChainLinked(t)

\* C6 (first half): VerifyAuditChain returns OK on a chain of events that
\* were never modified after being written.
C6_UntouchedChainVerifies ==
    Untouched => \A t \in Tenants : VerifyAuditChain(t) = VerifyOK

\* Event e alone differs from what its save wrote, and no event is missing.
OnlyTampered(e) ==
    /\ DOMAIN pending = {}
    /\ DOMAIN audit = DOMAIN written
    /\ e \in DOMAIN audit
    /\ audit[e] # written[e]
    /\ \A x \in DOMAIN audit \ {e} : audit[x] = written[x]

\* C6 (second half): when exactly one stored event has been changed after
\* the fact, VerifyAuditChain returns the id of that event, also when it is
\* the last event of its chain.
C6_TamperReported ==
    \A e \in DOMAIN audit :
        OnlyTampered(e) => VerifyAuditChain(audit[e].tenant) = e

\* C6: VerifyAuditChain returns OK on an untouched chain and the id of the
\* changed event when a single stored event was changed after the fact.
C6_VerifyAuditChain == C6_UntouchedChainVerifies /\ C6_TamperReported

\* C7: the audit log is append-only and write-once: no step changes a field
\* of an event whose save has returned, and none removes an event.
C7_AuditAppendOnly ==
    [][\A e \in DOMAIN audit \ DOMAIN pending :
          e \in DOMAIN audit' /\ audit'[e] = audit[e]]_vars

\* Forward order of PeriodStatus.
Rank(st) == CASE st = "OPEN" -> 0 [] st = "LOCKED" -> 1 [] st = "CLOSED" -> 2

\* C12: the status of a period only moves forward OPEN -> LOCKED -> CLOSED,
\* except for the unlock LOCKED -> OPEN; no step takes a CLOSED period back
\* to LOCKED or OPEN.
C12_PeriodStatusForward ==
    [][\A p \in Periods :
          \/ Rank(periodStatus'[p]) >= Rank(periodStatus[p])
          \/ (periodStatus[p] = "LOCKED" /\ periodStatus'[p] = "OPEN")]_vars

\* C14: a journal-entry submission whose lines fail validation is never
\* partially applied: when JournalEntryCreate is given a line that is not
\* accepted, no header, no line and no audit event is stored.
C14_NoPartialApplication ==
    [][\A t \in LedgerTenants, hdr \in JournalEntry,
         lns \in FormLines(LedgerAccounts) :
          (/\ \E i \in DOMAIN lns : ~LineAccepted(lns[i])
           /\ JournalEntryCreate(t, hdr, lns))
              => UNCHANGED <<entries, lines, audit>>]_vars

\* C15: post checks the period at the moment of posting: a DRAFT entry whose
\* period is no longer OPEN when post_entries runs stays DRAFT.
C15_PostChecksPeriod ==
    [][\A Q \in SUBSET EntryIds :
          post_entries(Q) =>
            \A e \in Q \cap DOMAIN entries :
                (entries[e].status = "DRAFT"
                 /\ periodStatus[entries[e].period] # "OPEN")
                    => entries'[e].status = "DRAFT"]_vars

\* C16: in a LOCKED period the DRAFT entries that exist are still posted by
\* post_entries and cancelled by cancel_entries; in a CLOSED period neither
\* changes an entry.
C16_LockedPostsClosedRefuses ==
    [][\A Q \in SUBSET EntryIds :
          \A e \in Q \cap DOMAIN entries :
              entries[e].status = "DRAFT" =>
                /\ (periodStatus[entries[e].period] = "LOCKED" /\ post_entries(Q))
                        => entries'[e].status = "POSTED"
                /\ (periodStatus[entries[e].period] = "LOCKED" /\ cancel_entries(Q))
                        => entries'[e].status = "CANCELLED"
                /\ (periodStatus[entries[e].period] = "CLOSED"
                    /\ (post_entries(Q) \/ cancel_entries(Q)))
                        => entries'[e] = entries[e]]_vars

\* C17: an entry and its lines are removed only while the entry is DRAFT: a
\* step that removes an entry removes all its lines in the same step, and no
\* step removes an entry that is POSTED or CANCELLED or one of its lines.
C17_RemovedOnlyWhileDraft ==
    [][\A e \in DOMAIN entries :
          /\ e \notin DOMAIN entries' => LinesOf(e) \cap DOMAIN lines' = {}
          /\ entries[e].status # "DRAFT" =>
                /\ e \in DOMAIN entries'
                /\ LinesOf(e) \subseteq DOMAIN lines']_vars

\* The closing of a fiscal year is posted.
ClosingPosted(fy) ==
    \E c \in DOMAIN closings :
        closings[c].fiscal_year = fy /\ closings[c].status = "POSTED"

\* C18: closed-year consistency: in every reachable state a fiscal year with
\* is_closed = true has all its periods CLOSED and a FiscalClosing with
\* status POSTED.
C18_ClosedYearConsistent ==
    \A fy \in FiscalYears :
        yearClosed[fy] =>
            /\ \A p \in PeriodsOf(fy) : periodStatus[p] = "CLOSED"
            /\ ClosingPosted(fy)

\* No fiscal year has more than one FiscalClosing.
OneClosingPerYear ==
    \A c, d \in DOMAIN closings :
        closings[c].fiscal_year = closings[d].fiscal_year => c = d

\* The INSERT of a creation whose year has a closing by now.
SecondClosingInsert ==
    \E i \in DOMAIN closingReq :
        /\ ClosingsOf(closingReq[i].fiscal_year, 0) # {}
        /\ ClosingInsert(i)

\* C19: FiscalClosing-FiscalYear is 1:1: no fiscal year ever has more than
\* one FiscalClosing, and the creation of a second closing for a year that
\* has one is rejected with the closings unchanged, also when the two
\* creations passed validation concurrently.
C19_OneClosingPerYear ==
    /\ []OneClosingPerYear
    /\ [][SecondClosingInsert =>
            (closings' = closings /\ closingResult' = "IntegrityError")]_vars

\* C19 witness: of two creations for one year that both passed validation,
\* one was inserted and the other was refused by the table.
C19_Witness ==
    /\ closingResult = "IntegrityError"
    /\ Cardinality(DOMAIN closings) = 1
    /\ closingReq = <<>>

\* C20: every stored JournalLine has debit >= 0, credit >= 0 and not both
\* positive; a create or update with such a line never stores it.
C20_LineSigns ==
    \A l \in DOMAIN lines :
        /\ lines[l].debit >= 0
        /\ lines[l].credit >= 0
        /\ ~(lines[l].debit > 0 /\ lines[l].credit > 0)

\* C20 witness: a debit-only and a credit-only line are stored and the
\* entry they were posted with exists.
C20_Witness ==
    \E a, b \in DOMAIN lines :
        /\ lines[a].debit > 0 /\ lines[a].credit = 0
        /\ lines[b].credit > 0 /\ lines[b].debit = 0
        /\ lines[a].entry \in DOMAIN entries

\* C21: every stored ExchangeRate has a rate strictly greater than 0.
C21_RatePositive == \A x \in DOMAIN rates : rates[x].rate > 0

\* C22: once an ExchangeRate has is_locked = true no update changes its rate
\* or its date.
C22_LockedRateFrozen ==
    [][\A x \in DOMAIN rates \cap DOMAIN rates' :
          rates[x].is_locked =>
            /\ rates'[x].rate = rates[x].rate
            /\ rates'[x].date = rates[x].date]_vars

\* A step that claims a seat: the write of LicenseClaimSeatView.post, of
\* ensure_seat_for_user or of the local branch of HasRHAccess.
SeatClaimed ==
    \E u \in Users : ClaimSeatWrite(u) \/ EnsureSeatWrite(u) \/ JitWrite(u)

\* C27: seat capacity: whatever the interleaving of the seat-claim
\* operations, none takes the number of active SeatAssignments above the
\* seats of the licence.
C27_SeatCapacity ==
    [][(SeatClaimed /\ seats_used <= LicenseSeats)
          => seats_used' <= LicenseSeats]_vars

\* C28 (first half): when the write of LicenseClaimSeatView.post answers 200
\* with user_entitled = true, the user has an active SeatAssignment, also
\* when the user had a deactivated one before.
C28_SeatActiveAfterClaim ==
    [][\A u \in Users : ClaimSeatWrite(u) => user_entitled(u)']_vars

\* C28: whenever LicenseClaimSeatView.post answers 200 with user_entitled =
\* true, the user has an active SeatAssignment in the resulting state, also
\* when the user had a deactivated one before, and the seats_used it reports
\* is the number of active assignments.
C28_ClaimAnswerTrue ==
    [][\A u \in Users :
          ((ClaimSeatRead(u) \/ ClaimSeatWrite(u))
           /\ claimResp'.user = u /\ claimResp'.status = 200
           /\ claimResp'.user_entitled
           /\ (claimResp' # claimResp \/ seatReq' # seatReq))
              => /\ user_entitled(u)'
                 /\ claimResp'.seats_used = seats_used']_vars

\* C24: an entry with zero lines is invalid (EmptyEntry): no POSTED entry
\* ever has an empty line set, although 0 = 0 makes is_balanced true for it.
C24_PostedHasLines ==
    \A e \in DOMAIN entries : entries[e].status = "POSTED" => LinesOf(e) # {}

\* C25: once the creating save of an AuditEvent has returned, its event_hash
\* is non-empty and equals the hash of the fields as stored; written[e] is
\* the row as it is stored when that save returns.
C25_HashOfStoredFields ==
    \A e \in DOMAIN written :
        /\ written[e].event_hash # EmptyHash
        /\ written[e].event_hash = compute_hash(written[e])

\* C25 (second half): a later save of an event whose creating save has
\* returned leaves event_hash unchanged.
C25_LaterSaveKeepsHash ==
    [][\A e \in DOMAIN written \cap DOMAIN audit \cap DOMAIN audit' :
          audit'[e].event_hash = audit[e].event_hash]_vars

\* C26: the chain of a tenant does not fork under concurrent writers: no two
\* events of a tenant carry the same prev_hash.
C26_NoFork ==
    \A e1, e2 \in DOMAIN audit :
        (e1 # e2 /\ audit[e1].tenant = audit[e2].tenant)
            => audit[e1].prev_hash # audit[e2].prev_hash

\* What a bulk action over the selection Q, giving the status to, has done
\* in a step: the selected DRAFT entries, and no other, have changed, in
\* their status alone; no entry and no line is added, removed or changed.
OnlyDraftsOf(Q, to) ==
    /\ DOMAIN entries' = DOMAIN entries
    /\ \A e \in DOMAIN entries :
          IF e \in Q /\ entries[e].status = "DRAFT"
          THEN entries'[e] = [entries[e] EXCEPT !.status = to]
          ELSE entries'[e] = entries[e]
    /\ lines' = lines
    /\ \A e \in Q : LinesOf(e)' = LinesOf(e)

ReferencedAccountStays ==
    \A a \in Accounts :
        (AccountDestroy(a) /\ \E l \in DOMAIN lines : lines[l].account = a)
            => /\ a \in accounts'
               /\ lines' = lines

\* No JournalLine refers to an account that does not exist.
NoDanglingAccount == \A l \in DOMAIN lines : lines[l].account \in accounts

\* C23: an Account that at least one JournalLine refers to cannot be deleted,
\* the account and the lines referring to it remain, and no JournalLine ever
\* refers to a non-existent account.
C23_ReferencedAccountProtected ==
    []NoDanglingAccount /\ [][ReferencedAccountStays]_vars

\* C23, reached: a line refers to an account while another account has been
\* deleted.
C23_Witness ==
    /\ \E l \in DOMAIN lines : lines[l].account \in accounts
    /\ accounts # Accounts

\* What a request of the tenant t leaves alone: every entry of another
\* tenant, and the lines that entry shows.
OthersUntouchedBy(t) ==
    \A e \in DOMAIN entries :
        entries[e].tenant # t
            => /\ e \in DOMAIN entries'
               /\ entries'[e] = entries[e]
               /\ LinesOf(e)' = LinesOf(e)

\* C29: the rows a request can list, read, update or delete belong to the
\* tenant resolved for it, a created row gets that tenant, nothing is created
\* when no tenant is resolved, and the data of a tenant is never changed by a
\* request resolved to another tenant.
C29_TenantIsolation ==
    [][\A t \in Tenants \cup {NoTenant} :
          ApiRequest({t}, LedgerAccounts) => OthersUntouchedBy(t)]_vars

\* C29 (scoping alone): a request changes or removes only rows of its own
\* tenant and creates rows of its own tenant, and none without a tenant.
C29_ScopedRows ==
    [][\A t \in Tenants \cup {NoTenant} :
          ApiRequest({t}, LedgerAccounts) =>
            /\ \A e \in DOMAIN entries :
                  (e \notin DOMAIN entries' \/ entries'[e] # entries[e])
                      => entries[e].tenant = t
            /\ \A e \in DOMAIN entries' \ DOMAIN entries : entries'[e].tenant = t
            /\ \A l \in DOMAIN lines' \ DOMAIN lines : lines'[l].tenant = t
            /\ \A l \in DOMAIN lines \cap DOMAIN lines' :
                  lines'[l] # lines[l] => lines[l].tenant = t]_vars

====
